---------------------------- MODULE Spec2Model ----------------------------
(***************************************************************************)
(* Model of the TON query gateway:                                         *)
(*   src/src/main.rs          the JSON-RPC gateway (handlers and startup)  *)
(*   src/ton-grpc/src/main.rs the gRPC gateway (startup and shutdown)      *)
(*                                                                         *)
(* Text is modelled as a sequence of one-character strings so that the     *)
(* parsers and codecs the handlers call (str::parse::<i64>, base64, hex)   *)
(* are computed character by character.                                    *)
(***************************************************************************)
EXTENDS Integers, Sequences, FiniteSets, TLC

VARIABLES
    phase,        \* per gateway: Created, Synchronizing, Serving, ShuttingDown, Terminated
    synced,       \* per gateway: the startup synchronization is pending, ok or failed
    listening,    \* per gateway: the listener is open
    exit,         \* per gateway: how the process ended
    enteredFrom,  \* per gateway: the phase Serving was entered from
    everListened, \* per gateway: a listener was opened at some point
    refused,      \* per gateway: a connection found no listener
    inflight,     \* per gateway: requests accepted and not yet answered
    served,       \* per gateway: a request was dispatched to the backend client
    req,          \* the JSON-RPC request being handled (NoReq: none)
    resp,         \* its response
    calls         \* the backend calls its handler made

vars == <<phase, synced, listening, exit, enteredFrom, everListened, refused,
          inflight, served, req, resp, calls>>


(***************************************************************************)
(* Bounds of the model.                                                    *)
(***************************************************************************)
MaxSeqno == 2
MaxLt == 2
MaxBocLen == 4
MaxUp == 3
MaxLimit == 3
MaxBlockTx == 2
MaxInflight == 2

(***************************************************************************)
(* Generic helpers.                                                        *)
(***************************************************************************)
None == << >>
Some(x) == <<x>>
IsSome(o) == Len(o) = 1
Unwrap(o) == o[1]
Opt(S) == {None} \cup {Some(x) : x \in S}

Range(s) == {s[i] : i \in 1..Len(s)}
Min(a, b) == IF a < b THEN a ELSE b
SeqsUpTo(S, n) == UNION {[1..k -> S] : k \in 0..n}

RECURSIVE Concat(_)
Concat(ss) == IF ss = << >> THEN << >> ELSE Head(ss) \o Concat(Tail(ss))

(***************************************************************************)
(* str::parse::<i64>.  A 64-bit value does not fit the checker's integers, *)
(* so an i64 is kept as sign and magnitude, the magnitude a sequence of    *)
(* decimal digits without leading zeros (<< >> is zero).                   *)
(***************************************************************************)
DigitChars == <<"0", "1", "2", "3", "4", "5", "6", "7", "8", "9">>
DigitVal(c) == (CHOOSE i \in 1..10 : DigitChars[i] = c) - 1
IsDigit(c) == c \in Range(DigitChars)

\* |i64::MAX| = 9223372036854775807 and |i64::MIN| = 9223372036854775808
I64MaxMag == <<9,2,2,3,3,7,2,0,3,6,8,5,4,7,7,5,8,0,7>>
I64MinMag == <<9,2,2,3,3,7,2,0,3,6,8,5,4,7,7,5,8,0,8>>

RECURSIVE StripZeros(_)
StripZeros(ds) ==
    IF ds # << >> /\ Head(ds) = 0 THEN StripZeros(Tail(ds)) ELSE ds

MagLess(a, b) ==
    \/ Len(a) < Len(b)
    \/ /\ Len(a) = Len(b)
       /\ \E i \in 1..Len(a) : a[i] < b[i] /\ \A j \in 1..(i - 1) : a[j] = b[j]

MagLeq(a, b) == a = b \/ MagLess(a, b)

I64(neg, mag) == [neg |-> neg /\ mag # << >>, mag |-> mag]
I64Zero == I64(FALSE, << >>)
ParseErr == [ok |-> FALSE, v |-> I64Zero]
ParseOk(v) == [ok |-> TRUE, v |-> v]

\* a > b on sign-and-magnitude values
I64Gt(a, b) ==
    IF a.neg # b.neg THEN b.neg
    ELSE IF a.neg THEN MagLess(a.mag, b.mag) ELSE MagLess(b.mag, a.mag)

\* s.parse::<i64>(): an optional sign, then one or more decimal digits, the
\* value within [i64::MIN, i64::MAX] (the checked multiply-and-add of the
\* standard library overflows exactly when the magnitude leaves that range).
ParseI64(s) ==
    IF s = << >> THEN ParseErr
    ELSE LET neg == s[1] = "-"
             digits == IF s[1] \in {"+", "-"} THEN Tail(s) ELSE s
         IN IF digits = << >> \/ \E i \in 1..Len(digits) : ~IsDigit(digits[i])
            THEN ParseErr
            ELSE LET mag == StripZeros([i \in 1..Len(digits) |-> DigitVal(digits[i])])
                 IN IF MagLeq(mag, IF neg THEN I64MinMag ELSE I64MaxMag)
                    THEN ParseOk(I64(neg, mag))
                    ELSE ParseErr

(***************************************************************************)
(* base64 (standard alphabet, '=' padding) and hex.                        *)
(***************************************************************************)
Alphabet ==
    <<"A","B","C","D","E","F","G","H","I","J","K","L","M","N","O","P",
      "Q","R","S","T","U","V","W","X","Y","Z","a","b","c","d","e","f",
      "g","h","i","j","k","l","m","n","o","p","q","r","s","t","u","v",
      "w","x","y","z","0","1","2","3","4","5","6","7","8","9","+","/">>
IsB64(c) == c \in Range(Alphabet)
B64Val(c) == (CHOOSE i \in 1..64 : Alphabet[i] = c) - 1
Pad == "="

DecodeErr(msg) == [ok |-> FALSE, bytes |-> << >>, description |-> msg]
DecodeOk(bytes) == [ok |-> TRUE, bytes |-> bytes, description |-> ""]

\* the bytes of one group of 2, 3 or 4 symbols
GroupBytes(g) ==
    LET v(i) == IF i <= Len(g) THEN B64Val(g[i]) ELSE 0
        n == v(1) * 262144 + v(2) * 4096 + v(3) * 64 + v(4)
        all == <<n \div 65536, (n \div 256) % 256, n % 256>>
    IN SubSeq(all, 1, Len(g) - 1)

\* the bits of the last symbol of a partial group that no byte holds
TrailingBits(g) ==
    IF Len(g) = 2 THEN B64Val(g[2]) % 16
    ELSE IF Len(g) = 3 THEN B64Val(g[3]) % 4
    ELSE 0

RECURSIVE DecodeGroups(_)
DecodeGroups(data) ==
    IF data = << >> THEN << >>
    ELSE IF Len(data) <= 4 THEN GroupBytes(data)
    ELSE GroupBytes(SubSeq(data, 1, 4)) \o DecodeGroups(SubSeq(data, 5, Len(data)))

\* base64::decode: a length of 4k+1 is invalid; padding is accepted only as
\* a trailing run in the last two places of a group of four and is not
\* required; the unused bits of the last symbol must be zero.
Base64Decode(s) ==
    LET n == Len(s)
        padded == {i \in 1..n : s[i] = Pad}
        firstPad == IF padded = {} THEN n + 1
                    ELSE CHOOSE i \in padded : \A j \in padded : i <= j
        data == SubSeq(s, 1, firstPad - 1)
        last == SubSeq(data, Len(data) - (Len(data) % 4) + 1, Len(data))
    IN IF n % 4 = 1
       THEN IF s[n] # Pad /\ ~IsB64(s[n]) THEN DecodeErr("invalid byte")
            ELSE DecodeErr("invalid length")
       ELSE IF \E i \in 1..n : s[i] # Pad /\ (~IsB64(s[i]) \/ i > firstPad)
       THEN DecodeErr("invalid byte")
       ELSE IF \E i \in padded : (i - 1) % 4 < 2
       THEN DecodeErr("invalid byte")
       ELSE IF TrailingBits(last) # 0
       THEN DecodeErr("invalid last symbol")
       ELSE DecodeOk(DecodeGroups(data))

EncodeGroup(b) ==
    LET v(i) == IF i <= Len(b) THEN b[i] ELSE 0
        n == v(1) * 65536 + v(2) * 256 + v(3)
        syms == <<Alphabet[(n \div 262144) + 1], Alphabet[((n \div 4096) % 64) + 1],
                  Alphabet[((n \div 64) % 64) + 1], Alphabet[(n % 64) + 1]>>
    IN SubSeq(syms, 1, Len(b) + 1) \o [i \in 1..(3 - Len(b)) |-> Pad]

\* base64::encode: three bytes to four symbols, the last group padded
RECURSIVE Base64Encode(_)
Base64Encode(bytes) ==
    IF bytes = << >> THEN << >>
    ELSE IF Len(bytes) <= 3 THEN EncodeGroup(bytes)
    ELSE EncodeGroup(SubSeq(bytes, 1, 3)) \o Base64Encode(SubSeq(bytes, 4, Len(bytes)))

HexChars == <<"0","1","2","3","4","5","6","7","8","9","a","b","c","d","e","f">>

\* hex::encode: two lowercase hex digits per byte
HexEncode(bytes) ==
    Concat([i \in 1..Len(bytes) |->
              <<HexChars[(bytes[i] \div 16) + 1], HexChars[(bytes[i] % 16) + 1]>>])

\* fn base64_to_hex(b: &str) -> anyhow::Result<String>
base64_to_hex(b) ==
    LET d == Base64Decode(b)
    IN IF d.ok THEN [ok |-> TRUE, hex |-> HexEncode(d.bytes)]
       ELSE [ok |-> FALSE, hex |-> << >>]

(***************************************************************************)
(* JSON-RPC responses and the backend client's answers.                    *)
(***************************************************************************)
DefaultLimit == 10
DefaultCount == 200

OkResp(v) == [kind |-> "Ok", code |-> "", message |-> "", value |-> v]
ErrResp(code, msg) == [kind |-> "Err", code |-> code, message |-> msg, value |-> << >>]
\* the handler's future unwinds (an unwrap() on an Err): no response value
PanicResp == [kind |-> "Panic", code |-> "", message |-> "", value |-> << >>]
NoResp == [kind |-> "None", code |-> "", message |-> "", value |-> << >>]

\* jsonrpc_core::Error::invalid_params(message)
InvalidParams(msg) == ErrResp("InvalidParams", msg)
\* jsonrpc_core::Error::internal_error()
InternalError == ErrResp("InternalError", "Internal error")
\* params.parse::<T>()? on parameters that do not deserialize into T
ParamsParseError == InvalidParams("Invalid params: deserialization failed")

\* anyhow::Result returned by a method of the backend client
BackendOk(v) == [ok |-> TRUE, value |-> v, detail |-> ""]
BackendErr(d) == [ok |-> FALSE, value |-> << >>, detail |-> d]
BackendErrDetails == {"liteserver timeout", "LITE_SERVER_UNKNOWN: block is not applied"}
BackendResults == {BackendOk(<<"result">>)} \cup {BackendErr(d) : d \in BackendErrDetails}

Call(method, args) == [method |-> method, args |-> args]
Done(response, made) == [resp |-> response, calls |-> made]

\* a response that repeats what the backend reported
JsonrpcErrorLeaking(r) ==
    IF r.ok THEN OkResp(r.value) ELSE ErrResp("InternalError", r.detail)

\* fn jsonrpc_error<T>(r: anyhow::Result<T>) -> Result<T>
jsonrpc_error(r) ==
    IF r.ok THEN OkResp(r.value) ELSE InternalError

\* the shard rule shared by lookupBlock, getBlockHeader, getBlockTransactions:
\* params.shard.parse::<i64>().map_err(|_| Error::invalid_params("invalid shard"))
ParseUnsignedOnly(s) ==
    IF s # << >> /\ s[1] = "-" THEN ParseErr ELSE ParseI64(s)

ParseShard(s) == ParseI64(s)

(***************************************************************************)
(* lookupBlock                                                             *)
(***************************************************************************)
\* the match without the guards on the values
LookupArmUnguarded(seqno, lt, unixtime) ==
    IF IsSome(seqno) /\ lt = None /\ unixtime = None THEN "by_seqno"
    ELSE IF seqno = None /\ IsSome(lt) /\ unixtime = None THEN "by_lt"
    ELSE IF seqno = None /\ lt = None /\ IsSome(unixtime) THEN "unixtime"
    ELSE "other"

\* match (params.seqno, params.lt, params.unixtime)
LookupArm(seqno, lt, unixtime) ==
    IF IsSome(seqno) /\ lt = None /\ unixtime = None /\ Unwrap(seqno) > 0 THEN "by_seqno"
    ELSE IF seqno = None /\ IsSome(lt) /\ unixtime = None /\ Unwrap(lt) > 0 THEN "by_lt"
    ELSE IF seqno = None /\ lt = None /\ IsSome(unixtime) THEN "unixtime"
    ELSE "other"

lookup_block(p, r) ==
    LET shard == ParseShard(p.shard)
        arm == LookupArm(p.seqno, p.lt, p.unixtime)
    IN IF ~p.parsed THEN Done(ParamsParseError, << >>)
       ELSE IF ~shard.ok THEN Done(InvalidParams("invalid shard"), << >>)
       ELSE IF arm = "by_seqno"
       THEN Done(jsonrpc_error(r),
                 <<Call("look_up_block_by_seqno", <<p.workchain, shard.v, Unwrap(p.seqno)>>)>>)
       ELSE IF arm = "by_lt"
       THEN Done(jsonrpc_error(r),
                 <<Call("look_up_block_by_lt", <<p.workchain, shard.v, Unwrap(p.lt)>>)>>)
       ELSE IF arm = "unixtime"
       THEN Done(InvalidParams("unixtime is not supported"), << >>)
       ELSE Done(InvalidParams("seqno or lt or unixtime must be provided"), << >>)

(***************************************************************************)
(* getMasterchainInfo, shards, getBlockHeader, getAddressInformation,      *)
(* getExtendedAddressInformation                                           *)
(***************************************************************************)
master_chain_info(r) ==
    Done(jsonrpc_error(r), <<Call("get_masterchain_info", << >>)>>)

shards(p, r) ==
    IF ~p.parsed THEN Done(ParamsParseError, << >>)
    ELSE Done(jsonrpc_error(r), <<Call("get_shards", <<Unwrap(p.seqno)>>)>>)

get_block_header(p, r) ==
    LET shard == ParseShard(p.shard)
    IN IF ~p.parsed THEN Done(ParamsParseError, << >>)
       ELSE IF ~shard.ok THEN Done(InvalidParams("invalid shard"), << >>)
       ELSE Done(jsonrpc_error(r),
                 <<Call("get_block_header", <<p.workchain, shard.v, Unwrap(p.seqno)>>)>>)

get_address_information(p, r) ==
    IF ~p.parsed THEN Done(ParamsParseError, << >>)
    ELSE Done(jsonrpc_error(r), <<Call("raw_get_account_state", <<p.address>>)>>)

get_extended_address_information(p, r) ==
    IF ~p.parsed THEN Done(ParamsParseError, << >>)
    ELSE Done(jsonrpc_error(r), <<Call("get_account_state", <<p.address>>)>>)

(***************************************************************************)
(* sendBoc                                                                 *)
(***************************************************************************)
\* a decode failure reported as if the backend had failed
SendBocDecodeInternal(description) == InternalError

\* .map_err(|e| jsonrpc_core::Error::invalid_params(e.description()))
SendBocDecodeError(description) == InvalidParams(description)

send_boc(p, r) ==
    LET boc == Base64Decode(p.boc)
        b64 == Base64Encode(boc.bytes)
    IN IF ~p.parsed THEN Done(ParamsParseError, << >>)
       ELSE IF ~boc.ok THEN Done(SendBocDecodeError(boc.description), << >>)
       ELSE Done(jsonrpc_error(r), <<Call("send_message", <<b64>>)>>)

(***************************************************************************)
(* Streams.  A stream is the sequence of items it yields before it ends,   *)
(* and the pull (1-based) at which polling it panics (0: never).           *)
(***************************************************************************)
Stream(items) == [items |-> items, panicAt |-> 0]

\* What a backend stream yields.  Its item type carries no error
\* (Stream<Item = RawTransaction>, Stream<Item = ShortTxId>): when the
\* backend fails after `failAt` items, pagination is aborted and the stream
\* ends there.
Yielded(upstream, failAt) ==
    IF IsSome(failAt) THEN Stream(SubSeq(upstream, 1, Unwrap(failAt)))
    ELSE Stream(upstream)

\* tx.transaction_id.lt.parse::<i64>().unwrap() > to_lt
AboveBound(tx, to_lt) == I64Gt(ParseI64(tx.transaction_id.lt).v, to_lt)

\* a filter: every element above the bound, wherever it is
FilterAbove(stream, to_lt) ==
    [items |-> SelectSeq(stream.items, LAMBDA tx : AboveBound(tx, to_lt)),
     panicAt |-> stream.panicAt]

\* StreamExt::take_while: the items before the first one failing the
\* predicate; the predicate unwinds on an lt that is no i64
take_while(stream, to_lt) ==
    LET n == Len(stream.items)
        bad == {i \in 1..n : ~ParseI64(stream.items[i].transaction_id.lt).ok}
        stop == {i \in 1..n : i \notin bad /\ ~AboveBound(stream.items[i], to_lt)}
        first(S) == IF S = {} THEN n + 1 ELSE CHOOSE i \in S : \A j \in S : i <= j
        k == Min(first(bad), first(stop))
    IN [items |-> SubSeq(stream.items, 1, k - 1),
        panicAt |-> IF first(bad) < first(stop) THEN first(bad) ELSE stream.panicAt]

\* a take that lets one item too many through
TakeOneMore(stream, n) ==
    [items |-> SubSeq(stream.items, 1, Min(n + 1, Len(stream.items))),
     panicAt |-> stream.panicAt]

\* StreamExt::take(n): at most n items; it polls the stream at most n times
take(stream, n) ==
    [items |-> SubSeq(stream.items, 1, Min(n, Len(stream.items))),
     panicAt |-> IF stream.panicAt # 0 /\ stream.panicAt <= n THEN stream.panicAt ELSE 0]

(***************************************************************************)
(* getTransactions                                                         *)
(***************************************************************************)
\* match (lt, hash)
Source(lt, hash) ==
    IF IsSome(lt) /\ IsSome(hash) THEN "get_account_tx_stream_from"
    ELSE "get_account_tx_stream"

\* params.to_lt.and_then(|x| x.parse::<i64>().ok())
MaxLtOf(to_lt) ==
    IF IsSome(to_lt) /\ ParseI64(Unwrap(to_lt)).ok
    THEN Some(ParseI64(Unwrap(to_lt)).v)
    ELSE None

\* params.limit.unwrap_or(10)
CountOf(limit) == IF IsSome(limit) THEN Unwrap(limit) ELSE DefaultLimit

get_transactions(p) ==
    LET count == CountOf(p.limit)
        max_lt == MaxLtOf(p.to_lt)
        source == Source(p.lt, p.hash)
        call == IF source = "get_account_tx_stream_from"
                THEN Call(source, <<p.address, Unwrap(p.hash), Unwrap(p.lt)>>)
                ELSE Call(source, <<p.address>>)
        stream == Yielded(p.upstream, p.failAt)
        bounded == IF IsSome(max_lt) THEN take_while(stream, Unwrap(max_lt)) ELSE stream
        txs == take(bounded, count)
    IN IF ~p.parsed THEN Done(ParamsParseError, << >>)
       ELSE IF txs.panicAt # 0 THEN Done(PanicResp, <<call>>)
       ELSE Done(OkResp(txs.items), <<call>>)

(***************************************************************************)
(* getBlockTransactions                                                    *)
(***************************************************************************)
RECURSIVE NatDigits(_)
NatDigits(n) ==
    IF n < 10 THEN <<DigitChars[n + 1]>>
    ELSE NatDigits(n \div 10) \o <<DigitChars[(n % 10) + 1]>>

\* Display of an integer (the "{}" of format!)
FormatInt(n) == IF n < 0 THEN <<"-">> \o NatDigits(0 - n) ELSE NatDigits(n)

\* format!("{}:{}", block.workchain, base64_to_hex(&tx.account).unwrap())
AccountOf(block, tx) ==
    FormatInt(block.workchain) \o <<":">> \o base64_to_hex(tx.account).hex

RewriteTx(block, tx) ==
    [account |-> AccountOf(block, tx), hash |-> tx.hash, lt |-> tx.lt, mode |-> tx.mode]

\* stream.map(|tx: ShortTxId| ShortTxId { account: format!(..unwrap()), .. }):
\* the closure unwinds on the first account that is not base64
map_accounts(stream, block) ==
    LET n == Len(stream.items)
        bad == {i \in 1..n : ~base64_to_hex(stream.items[i].account).ok}
        first == IF bad = {} THEN 0 ELSE CHOOSE i \in bad : \A j \in bad : i <= j
    IN [items |-> [i \in 1..(IF first = 0 THEN n ELSE first - 1) |->
                     RewriteTx(block, stream.items[i])],
        panicAt |-> IF first # 0 THEN first ELSE stream.panicAt]

\* the answer of look_up_block_by_seqno as JSON: a BlockIdExt, or something
\* serde_json::from_value::<BlockIdExt> rejects
BlockJson(workchain, shard, seqno) ==
    [wellformed |-> TRUE, workchain |-> workchain, shard |-> shard, seqno |-> seqno]
MalformedJson == [wellformed |-> FALSE, workchain |-> 0, shard |-> I64Zero, seqno |-> 0]

get_block_transactions(p, r) ==
    LET shard == ParseShard(p.shard)
        count == IF IsSome(p.count) THEN Unwrap(p.count) ELSE DefaultCount
        lookup == Call("look_up_block_by_seqno", <<p.workchain, shard.v, Unwrap(p.seqno)>>)
        block == r.value
        stream == Yielded(p.upstream, p.failAt)
        tx == map_accounts(stream, block)
    IN IF ~p.parsed THEN Done(ParamsParseError, << >>)
       ELSE IF ~shard.ok THEN Done(InvalidParams("invalid shard"), << >>)
       ELSE IF ~r.ok THEN Done(InternalError, <<lookup>>)
       ELSE IF ~block.wellformed THEN Done(InternalError, <<lookup>>)
       ELSE IF tx.panicAt # 0
       THEN Done(PanicResp, <<lookup, Call("get_tx_stream", <<block>>)>>)
       ELSE Done(OkResp(<<[type |-> "blocks.transactions", id |-> block,
                           incomplete |-> FALSE, req_count |-> count,
                           transactions |-> tx.items]>>),
                 <<lookup, Call("get_tx_stream", <<block>>)>>)

(***************************************************************************)
(* The requests the model sends.                                           *)
(***************************************************************************)
Workchains == {-1, 0}
SeqnoVals == 0..MaxSeqno
LtVals == -1..MaxLt
UnixtimeVals == {0, 1700000000}
Addresses == {"EQCD39VS5jcptHL8vMjEXrzGaRcCVYto7HUn4bpAOg8xqB2N"}
Hashes == {"dGVzdA=="}

ShardStrings ==
    { << >>, <<"-">>, <<"+">>, <<"0">>, <<"1">>, <<"-","1">>, <<"+","1">>,
      <<"0","0","7">>, <<"a","b","c">>, <<"1","a">>, <<" ","1">>,
      <<"-","9","2","2","3","3","7","2","0","3","6","8","5","4","7","7","5","8","0","8">>,
      <<"-","9","2","2","3","3","7","2","0","3","6","8","5","4","7","7","5","8","0","9">>,
      <<"9","2","2","3","3","7","2","0","3","6","8","5","4","7","7","5","8","0","7">>,
      <<"9","2","2","3","3","7","2","0","3","6","8","5","4","7","7","5","8","0","8">>,
      <<"1","8","4","4","6","7","4","4","0","7","3","7","0","9","5","5","1","6","1","5">> }

BocChars == {"Q", "R", "/", "=", "!"}
BocStrings == SeqsUpTo(BocChars, MaxBocLen)

\* logical times as the backend prints them
LtStrings == {<<"1">>, <<"2">>, <<"3">>}
RawTransaction(lt) == [transaction_id |-> [lt |-> lt, hash |-> "aGFzaA=="]]
\* a page longer than the default limit: lt n, n-1, .., 1
LongUpstream(n) == [i \in 1..n |-> RawTransaction(NatDigits(n + 1 - i))]
TxUpstreams ==
    {[i \in 1..Len(s) |-> RawTransaction(s[i])] : s \in SeqsUpTo(LtStrings, MaxUp)}
        \cup {LongUpstream(DefaultLimit + 1), LongUpstream(DefaultLimit + 2)}
ToLtStrings == {<<"1">>, <<"2">>, <<"x">>}
CursorLts == {"3"}

Accounts == {<<"Q","Q","=","=">>, <<"!","Q","=","=">>}
ShortTxId(account) == [account |-> account, hash |-> "aGFzaA==", lt |-> 1, mode |-> 0]
BlockUpstreams ==
    {[i \in 1..Len(s) |-> ShortTxId(s[i])] : s \in SeqsUpTo(Accounts, MaxBlockTx)}
Counts == {5}

\* where the backend may fail while a stream of n items is being paged
FailPoints(n) == {None} \cup {Some(k) : k \in 0..(n - 1)}

EmptyReq ==
    [method |-> "", parsed |-> TRUE, workchain |-> 0, shard |-> << >>,
     seqno |-> None, lt |-> None, unixtime |-> None, count |-> None,
     address |-> "", limit |-> None, hash |-> None, to_lt |-> None,
     boc |-> << >>, backend |-> BackendOk(<<"result">>),
     upstream |-> << >>, failAt |-> None]
NoReq == EmptyReq

Gateways == {"jsonrpc", "grpc"}

Init ==
    /\ phase = [g \in Gateways |-> "Created"]
    /\ synced = [g \in Gateways |-> "pending"]
    /\ listening = [g \in Gateways |-> FALSE]
    /\ exit = [g \in Gateways |-> "none"]
    /\ enteredFrom = [g \in Gateways |-> "none"]
    /\ everListened = [g \in Gateways |-> FALSE]
    /\ refused = [g \in Gateways |-> FALSE]
    /\ inflight = [g \in Gateways |-> 0]
    /\ served = [g \in Gateways |-> FALSE]
    /\ req = NoReq
    /\ resp = NoResp
    /\ calls = << >>

(***************************************************************************)
(* Startup and shutdown of the two processes.                              *)
(*   jsonrpc: src/src/main.rs, main and the lazy static TON                *)
(*   grpc:    src/ton-grpc/src/main.rs, main                               *)
(***************************************************************************)
Set(f, g, v) == [f EXCEPT ![g] = v]

\* the client is constructed: ClientBuilder ... .build().await.unwrap() on the
\* first use of TON, TonClientBuilder ... .await? in the gRPC gateway
Construct(g) ==
    /\ phase[g] = "Created"
    /\ \E built \in BOOLEAN :
          IF built
          THEN /\ phase' = Set(phase, g, "Synchronizing")
               /\ exit' = exit
          ELSE /\ phase' = Set(phase, g, "Terminated")
               /\ exit' = Set(exit, g, "error")
    /\ UNCHANGED <<synced, listening, enteredFrom, everListened, refused,
                   inflight, served, req, resp, calls>>

\* main goes on whatever the synchronization returned
ProceedsAlways(ok) == TRUE

\* the `?` of TON.synchronize().await? and of client.ready().await?
Proceeds(ok) == ok

Synchronize(g) ==
    /\ phase[g] = "Synchronizing"
    /\ synced[g] = "pending"
    /\ \E ok \in BOOLEAN :
          /\ synced' = Set(synced, g, IF ok THEN "ok" ELSE "failed")
          /\ IF Proceeds(ok)
             THEN /\ phase' = phase
                  /\ exit' = exit
             ELSE /\ phase' = Set(phase, g, "Terminated")
                  /\ exit' = Set(exit, g, "error")
    /\ UNCHANGED <<listening, enteredFrom, everListened, refused, inflight,
                   served, req, resp, calls>>

\* start_http(..).unwrap() inside spawn_blocking, whose JoinError main drops;
\* serve_with_shutdown(..).await? in the gRPC gateway
StartListener(g) ==
    /\ phase[g] = "Synchronizing"
    /\ synced[g] # "pending"
    /\ \E bound \in BOOLEAN :
          IF bound
          THEN /\ phase' = Set(phase, g, "Serving")
               /\ listening' = Set(listening, g, TRUE)
               /\ everListened' = Set(everListened, g, TRUE)
               /\ enteredFrom' = Set(enteredFrom, g, phase[g])
               /\ exit' = exit
          ELSE /\ phase' = Set(phase, g, "Terminated")
               /\ exit' = Set(exit, g, IF g = "jsonrpc" THEN "ok" ELSE "error")
               /\ UNCHANGED <<listening, everListened, enteredFrom>>
    /\ UNCHANGED <<synced, refused, inflight, served, req, resp, calls>>

\* a client connects while no listener is open
Refuse(g) ==
    /\ ~listening[g]
    /\ ~refused[g]
    /\ refused' = Set(refused, g, TRUE)
    /\ UNCHANGED <<phase, synced, listening, exit, enteredFrom, everListened,
                   inflight, served, req, resp, calls>>

\* the listener accepts a request and hands it to a service of the gateway
Accept(g) ==
    /\ listening[g]
    /\ inflight[g] < MaxInflight
    /\ inflight' = Set(inflight, g, inflight[g] + 1)
    /\ served' = Set(served, g, TRUE)
    /\ UNCHANGED <<phase, synced, listening, exit, enteredFrom, everListened,
                   refused, req, resp, calls>>

Complete(g) ==
    /\ inflight[g] > 0
    /\ phase[g] \in {"Serving", "ShuttingDown"}
    /\ inflight' = Set(inflight, g, inflight[g] - 1)
    /\ UNCHANGED <<phase, synced, listening, exit, enteredFrom, everListened,
                   refused, served, req, resp, calls>>

\* an interrupt: tokio::signal::ctrl_c() starts the graceful shutdown of the
\* gRPC server; the JSON-RPC process installs no handler and is killed
Interrupt(g) ==
    /\ phase[g] = "Serving"
    /\ listening' = Set(listening, g, FALSE)
    /\ IF g = "grpc"
       THEN /\ phase' = Set(phase, g, "ShuttingDown")
            /\ UNCHANGED <<exit, inflight, req, resp, calls>>
       ELSE /\ phase' = Set(phase, g, "Terminated")
            /\ exit' = Set(exit, g, "signal")
            /\ inflight' = Set(inflight, g, 0)
            /\ req' = NoReq
            /\ resp' = NoResp
            /\ calls' = << >>
    /\ UNCHANGED <<synced, enteredFrom, everListened, refused, served>>

\* the in-flight calls have drained: serve_with_shutdown returns, main Ok(())
Drain(g) ==
    /\ phase[g] = "ShuttingDown"
    /\ inflight[g] = 0
    /\ phase' = Set(phase, g, "Terminated")
    /\ exit' = Set(exit, g, "ok")
    /\ UNCHANGED <<synced, listening, enteredFrom, everListened, refused,
                   inflight, served, req, resp, calls>>

(***************************************************************************)
(* The JSON-RPC handlers, one request at a time: the handlers share no     *)
(* mutable state.                                                          *)
(***************************************************************************)
Idle ==
    /\ phase["jsonrpc"] = "Serving"
    /\ listening["jsonrpc"]
    /\ req = NoReq

Handle(p, out) ==
    /\ req' = p
    /\ resp' = out.resp
    /\ calls' = out.calls
    /\ served' = Set(served, "jsonrpc", TRUE)
    /\ inflight' = Set(inflight, "jsonrpc", 1)
    /\ UNCHANGED <<phase, synced, listening, exit, enteredFrom, everListened, refused>>

Malformed(method) == [EmptyReq EXCEPT !.method = method, !.parsed = FALSE]

MasterchainInfo ==
    /\ Idle
    /\ \E r \in BackendResults :
          LET p == [EmptyReq EXCEPT !.method = "getMasterchainInfo", !.backend = r]
          IN Handle(p, master_chain_info(r))

LookupBlock ==
    /\ Idle
    /\ \/ Handle(Malformed("lookupBlock"),
                 lookup_block(Malformed("lookupBlock"), BackendOk(<<"result">>)))
       \/ \E workchain \in Workchains, shard \in ShardStrings,
             seqno \in Opt(SeqnoVals), lt \in Opt(LtVals),
             unixtime \in Opt(UnixtimeVals), r \in BackendResults :
             LET p == [EmptyReq EXCEPT !.method = "lookupBlock",
                                       !.workchain = workchain, !.shard = shard,
                                       !.seqno = seqno, !.lt = lt,
                                       !.unixtime = unixtime, !.backend = r]
             IN Handle(p, lookup_block(p, r))

Shards ==
    /\ Idle
    /\ \/ Handle(Malformed("shards"), shards(Malformed("shards"), BackendOk(<<"result">>)))
       \/ \E seqno \in SeqnoVals, r \in BackendResults :
             LET p == [EmptyReq EXCEPT !.method = "shards", !.seqno = Some(seqno),
                                       !.backend = r]
             IN Handle(p, shards(p, r))

GetBlockHeader ==
    /\ Idle
    /\ \/ Handle(Malformed("getBlockHeader"),
                 get_block_header(Malformed("getBlockHeader"), BackendOk(<<"result">>)))
       \/ \E workchain \in Workchains, shard \in ShardStrings, seqno \in SeqnoVals,
             r \in BackendResults :
             LET p == [EmptyReq EXCEPT !.method = "getBlockHeader",
                                       !.workchain = workchain, !.shard = shard,
                                       !.seqno = Some(seqno), !.backend = r]
             IN Handle(p, get_block_header(p, r))

\* what look_up_block_by_seqno may answer
BlockLookupResults(workchain, shard, seqno) ==
    {BackendOk(BlockJson(workchain, ParseShard(shard).v, seqno)), BackendOk(MalformedJson)}
        \cup {BackendErr(d) : d \in BackendErrDetails}

GetBlockTransactions ==
    /\ Idle
    /\ \/ Handle(Malformed("getBlockTransactions"),
                 get_block_transactions(Malformed("getBlockTransactions"),
                                        BackendOk(MalformedJson)))
       \/ \E workchain \in Workchains, shard \in ShardStrings, seqno \in SeqnoVals,
             count \in Opt(Counts), upstream \in BlockUpstreams :
             \E r \in BlockLookupResults(workchain, shard, seqno),
                failAt \in FailPoints(Len(upstream)) :
                LET p == [EmptyReq EXCEPT !.method = "getBlockTransactions",
                                          !.workchain = workchain, !.shard = shard,
                                          !.seqno = Some(seqno), !.count = count,
                                          !.backend = r, !.upstream = upstream,
                                          !.failAt = failAt]
                IN Handle(p, get_block_transactions(p, r))

GetAddressInformation ==
    /\ Idle
    /\ \/ Handle(Malformed("getAddressInformation"),
                 get_address_information(Malformed("getAddressInformation"),
                                         BackendOk(<<"result">>)))
       \/ \E address \in Addresses, r \in BackendResults :
             LET p == [EmptyReq EXCEPT !.method = "getAddressInformation",
                                       !.address = address, !.backend = r]
             IN Handle(p, get_address_information(p, r))

GetExtendedAddressInformation ==
    /\ Idle
    /\ \/ Handle(Malformed("getExtendedAddressInformation"),
                 get_extended_address_information(
                     Malformed("getExtendedAddressInformation"), BackendOk(<<"result">>)))
       \/ \E address \in Addresses, r \in BackendResults :
             LET p == [EmptyReq EXCEPT !.method = "getExtendedAddressInformation",
                                       !.address = address, !.backend = r]
             IN Handle(p, get_extended_address_information(p, r))

GetTransactions ==
    /\ Idle
    /\ \/ Handle(Malformed("getTransactions"), get_transactions(Malformed("getTransactions")))
       \/ \E address \in Addresses, limit \in Opt(0..MaxLimit), lt \in Opt(CursorLts),
             hash \in Opt(Hashes), to_lt \in Opt(ToLtStrings), upstream \in TxUpstreams :
             \E failAt \in FailPoints(Len(upstream)) :
                LET p == [EmptyReq EXCEPT !.method = "getTransactions",
                                          !.address = address, !.limit = limit,
                                          !.lt = lt, !.hash = hash, !.to_lt = to_lt,
                                          !.upstream = upstream, !.failAt = failAt]
                IN Handle(p, get_transactions(p))

SendBoc ==
    /\ Idle
    /\ \/ Handle(Malformed("sendBoc"), send_boc(Malformed("sendBoc"), BackendOk(<<"result">>)))
       \/ \E boc \in BocStrings, r \in BackendResults :
             LET p == [EmptyReq EXCEPT !.method = "sendBoc", !.boc = boc, !.backend = r]
             IN Handle(p, send_boc(p, r))

\* the response is written and the handler's future is dropped
Respond ==
    /\ req # NoReq
    /\ phase["jsonrpc"] = "Serving"
    /\ req' = NoReq
    /\ resp' = NoResp
    /\ calls' = << >>
    /\ inflight' = Set(inflight, "jsonrpc", 0)
    /\ UNCHANGED <<phase, synced, listening, exit, enteredFrom, everListened,
                   refused, served>>

(***************************************************************************)
(* Specifications.                                                         *)
(*   Spec        the JSON-RPC process: startup, then its nine handlers     *)
(*   SpecStartup the startup and shutdown of both processes, with the      *)
(*               requests reduced to their acceptance                      *)
(***************************************************************************)
Next ==
    \/ Construct("jsonrpc")
    \/ Synchronize("jsonrpc")
    \/ StartListener("jsonrpc")
    \/ Interrupt("jsonrpc")
    \/ MasterchainInfo
    \/ LookupBlock
    \/ Shards
    \/ GetBlockHeader
    \/ GetBlockTransactions
    \/ GetAddressInformation
    \/ GetExtendedAddressInformation
    \/ GetTransactions
    \/ SendBoc
    \/ Respond

Spec == Init /\ [][Next]_vars

NextStartup ==
    \E g \in Gateways :
        \/ Construct(g)
        \/ Synchronize(g)
        \/ StartListener(g)
        \/ Refuse(g)
        \/ Accept(g)
        \/ Complete(g)
        \/ Interrupt(g)
        \/ Drain(g)

SpecStartup == Init /\ [][NextStartup]_vars

(***************************************************************************)
(* Properties.                                                             *)
(***************************************************************************)
Handled(method) == req.method = method /\ req.parsed
Called(method) == \E i \in 1..Len(calls) : calls[i].method = method

\* the value of a short string of decimal digits
RECURSIVE DecimalValue(_)
DecimalValue(s) ==
    IF s = << >> THEN 0
    ELSE 10 * DecimalValue(SubSeq(s, 1, Len(s) - 1)) + DigitVal(s[Len(s)])

IsDecimal(s) == s # << >> /\ \A i \in 1..Len(s) : IsDigit(s[i])
LtOf(tx) == DecimalValue(tx.transaction_id.lt)

\* the items the backend stream yielded to the handler of the current request
YieldedItems == Yielded(req.upstream, req.failAt).items

\* the strings of ShardStrings that are the decimal form of an i64
DecimalI64Shards ==
    { <<"0">>, <<"1">>, <<"-","1">>, <<"+","1">>, <<"0","0","7">>,
      <<"-","9","2","2","3","3","7","2","0","3","6","8","5","4","7","7","5","8","0","8">>,
      <<"9","2","2","3","3","7","2","0","3","6","8","5","4","7","7","5","8","0","7">> }

MinShard ==
    <<"-","9","2","2","3","3","7","2","0","3","6","8","5","4","7","7","5","8","0","8">>

\* C1: for a lookupBlock request whose shard parses, look_up_block_by_seqno is
\* called exactly when seqno is present and > 0 with lt and unixtime absent,
\* look_up_block_by_lt exactly when lt is present and > 0 with seqno and
\* unixtime absent; unixtime alone fails with "unixtime is not supported" and
\* every other combination with "seqno or lt or unixtime must be provided",
\* both without a backend call.
C1_LookupDispatch ==
    (Handled("lookupBlock") /\ req.shard \in DecimalI64Shards) =>
        LET bySeqno == /\ IsSome(req.seqno) /\ Unwrap(req.seqno) > 0
                       /\ req.lt = None /\ req.unixtime = None
            byLt == /\ IsSome(req.lt) /\ Unwrap(req.lt) > 0
                    /\ req.seqno = None /\ req.unixtime = None
            onlyUnixtime == req.seqno = None /\ req.lt = None /\ IsSome(req.unixtime)
        IN /\ Called("look_up_block_by_seqno") <=> bySeqno
           /\ Called("look_up_block_by_lt") <=> byLt
           /\ Len(calls) <= 1
           /\ bySeqno => calls[1].args[3] = Unwrap(req.seqno)
           /\ byLt => calls[1].args[3] = Unwrap(req.lt)
           /\ onlyUnixtime =>
                 resp = InvalidParams("unixtime is not supported") /\ calls = << >>
           /\ ~(bySeqno \/ byLt \/ onlyUnixtime) =>
                 /\ resp = InvalidParams("seqno or lt or unixtime must be provided")
                 /\ calls = << >>

C1_Witness ==
    /\ Handled("lookupBlock")
    /\ req.seqno = None /\ req.lt = Some(0) /\ req.unixtime = None
    /\ req.shard = MinShard
    /\ resp = InvalidParams("seqno or lt or unixtime must be provided")

\* C2: for getTransactions with to_lt = B, the result is the longest leading
\* run of the yielded sequence whose elements all have lt > B, cut to at most
\* limit elements, in the yielded order; nothing after the first element with
\* lt <= B is returned.
C2_TakeWhilePrefix ==
    (Handled("getTransactions") /\ IsSome(req.to_lt) /\ IsDecimal(Unwrap(req.to_lt))) =>
        LET B == DecimalValue(Unwrap(req.to_lt))
            L == IF IsSome(req.limit) THEN Unwrap(req.limit) ELSE 10
            Y == YieldedItems
            leading == {n \in 0..Len(Y) : \A i \in 1..n : LtOf(Y[i]) > B}
            k == CHOOSE n \in leading : \A m \in leading : m <= n
        IN /\ resp.kind = "Ok"
           /\ resp.value = SubSeq(Y, 1, Min(k, L))
           /\ \A i \in 1..Len(resp.value) : LtOf(resp.value[i]) > B

\* an element above the bound lies behind the first one at or below it, and is
\* not returned although the limit leaves room for it
C2_Witness ==
    /\ Handled("getTransactions") /\ IsSome(req.to_lt) /\ IsDecimal(Unwrap(req.to_lt))
    /\ resp.kind = "Ok"
    /\ Len(resp.value) = 1
    /\ req.limit = Some(3)
    /\ \E j \in 3..Len(YieldedItems) :
          LtOf(YieldedItems[j]) > DecimalValue(Unwrap(req.to_lt))

\* C3: for getTransactions with limit L (10 when absent) and no to_lt, the
\* result is the first min(L, n) of the n yielded elements, in order; with or
\* without to_lt the result has at most L elements.
C3_LimitTruncation ==
    Handled("getTransactions") =>
        LET L == IF IsSome(req.limit) THEN Unwrap(req.limit) ELSE 10
            Y == YieldedItems
        IN /\ resp.kind = "Ok"
           /\ Len(resp.value) <= L
           /\ req.to_lt = None => resp.value = SubSeq(Y, 1, Min(L, Len(Y)))

C3_Witness ==
    /\ Handled("getTransactions")
    /\ req.limit = None /\ req.to_lt = None
    /\ Len(YieldedItems) = 12
    /\ Len(resp.value) = 10

\* C4: no listener is open and no request is accepted or dispatched before the
\* startup synchronization has succeeded; Serving is entered only from
\* Synchronizing; a failed synchronization ends the process with an error, no
\* listener ever opened and no request served.
C4_NoServingBeforeSync ==
    \A g \in Gateways :
        /\ (listening[g] \/ everListened[g] \/ served[g] \/ inflight[g] > 0
              \/ phase[g] \in {"Serving", "ShuttingDown"}) => synced[g] = "ok"
        /\ phase[g] = "Serving" => enteredFrom[g] = "Synchronizing"
        /\ synced[g] = "failed" =>
              /\ phase[g] = "Terminated" /\ exit[g] = "error"
              /\ ~everListened[g] /\ ~served[g]

C4_Witness ==
    /\ served["grpc"] /\ phase["grpc"] = "Serving"
    /\ synced["jsonrpc"] = "failed" /\ refused["jsonrpc"]

\* C5: when the backend fails while the stream of getTransactions or
\* getBlockTransactions is consumed, the call delivers the full bounded
\* sequence or fails with the generic internal error; it never succeeds with
\* a prefix cut short by the failure.
C5_NoPartialResults ==
    /\ (Handled("getTransactions") /\ IsSome(req.failAt)) =>
          \/ resp = InternalError
          \/ resp = get_transactions([req EXCEPT !.failAt = None]).resp
    /\ (/\ Handled("getBlockTransactions") /\ IsSome(req.failAt) /\ Called("get_tx_stream")
        /\ \A i \in 1..Len(req.upstream) : "!" \notin Range(req.upstream[i].account)) =>
          \/ resp = InternalError
          \/ resp = get_block_transactions([req EXCEPT !.failAt = None], req.backend).resp

\* C6: in getBlockTransactions, an account of a yielded ShortTxId that is not
\* base64 ends the call with an internal-error response: the handler returns
\* an error value, it does not unwind.
C6_DecodeErrorIsInternalError ==
    (/\ Handled("getBlockTransactions")
     /\ Called("get_tx_stream")
     /\ \E i \in 1..Len(YieldedItems) : "!" \in Range(YieldedItems[i].account)) =>
        resp = InternalError

\* C7: a sendBoc payload that is not valid base64 yields InvalidParams with
\* the decode error's message and no send_message call; send_message is called
\* only with the canonical re-encoding of a payload that decoded.
C7_SendBocValidation ==
    Handled("sendBoc") =>
        LET d == Base64Decode(req.boc)
        IN /\ "!" \in Range(req.boc) => ~d.ok
           /\ ~d.ok =>
                 /\ resp = InvalidParams(d.description)
                 /\ d.description \in {"invalid byte", "invalid length", "invalid last symbol"}
                 /\ calls = << >>
           /\ calls # << >> =>
                 /\ d.ok
                 /\ calls = <<Call("send_message", <<Base64Encode(d.bytes)>>)>>
                 /\ Len(calls[1].args[1]) % 4 = 0
                 /\ Base64Decode(calls[1].args[1]) = d
                 /\ resp = (IF req.backend.ok THEN OkResp(req.backend.value) ELSE InternalError)

\* an unpadded payload is forwarded padded
C7_Witness ==
    /\ Handled("sendBoc")
    /\ req.boc = <<"Q", "Q">>
    /\ calls = <<Call("send_message", <<(<<"Q", "Q", "=", "=">>)>>)>>

C9_ShardParsing ==
    (/\ req.method \in {"lookupBlock", "getBlockHeader", "getBlockTransactions"}
     /\ req.parsed) =>
        /\ req.shard \notin DecimalI64Shards =>
              resp = InvalidParams("invalid shard") /\ calls = << >>
        /\ req.shard \in DecimalI64Shards =>
              /\ resp # InvalidParams("invalid shard")
              /\ req.method # "lookupBlock" => calls # << >>
        /\ (req.shard = MinShard /\ calls # << >>) =>
              calls[1].args[2] = [neg |-> TRUE, mag |-> I64MinMag]

C9_Witness ==
    /\ Handled("getBlockHeader")
    /\ req.shard = MinShard
    /\ Called("get_block_header")
    /\ resp.kind = "Ok"

\* C10: getTransactions uses the from-cursor source exactly when the pair
\* (lt, hash) is supplied and the from-latest source exactly when the cursor
\* is absent; a request with only one of lt and hash is not served from the
\* from-latest source.
C10_CursorSelection ==
    Handled("getTransactions") =>
        /\ Called("get_account_tx_stream_from") <=> (IsSome(req.lt) /\ IsSome(req.hash))
        /\ Called("get_account_tx_stream") <=> (req.lt = None /\ req.hash = None)

=============================================================================
